---- MODULE Spec2Model ----
(***************************************************************************)
(* Model of main.cpp: the Observer / Factory / Singleton notification      *)
(* system.  The manager's registry, the singleton pointer, the heap of     *)
(* constructed managers, the stack-allocated users and standard output     *)
(* are the state.  The class interface is driven by two callers: main()    *)
(* itself, statement by statement, and an unconstrained caller that        *)
(* invokes the public members in any order with any arguments.             *)
(***************************************************************************)
EXTENDS Integers, Sequences, FiniteSets, TLC

VARIABLES
    pc,        \* position of the caller: a line of main(), "done", or "free"
    instance,  \* NotificationManager::instance (nullptr or a heap address)
    heap,      \* managers constructed by new, in allocation order
    manager,   \* the caller's local NotificationManager* (main.cpp:113)
    users,     \* User objects alive in the caller's frame: address -> name
    stdout,    \* every line written to std::cout so far
    call,      \* the member call that ran last, with its arguments
    pre,       \* the registry the caller could see just before that call
    trace,     \* virtual invocations (send / update) made by that call
    out,       \* the lines that call wrote to std::cout
    exitCode,  \* value returned by main, "none" until it returns
    subscribed,\* history: number of subscribe calls made per (type, user)
    nops       \* number of calls made by the unconstrained caller

vars == <<pc, instance, heap, manager, users, stdout, call, pre, trace, out,
          exitCode, subscribed, nops>>

\* Number of calls the unconstrained caller makes.
MaxOps == 5

nullptr == 0

\* Argument values the unconstrained caller draws from.
Types == {"email", "sms", "push", "fax"}
\* Strings handed to the factory directly: the channel names plus near misses.
FactoryInputs == Types \cup {"Email", "SMS", ""}
Messages == {"hello", "Your order has been placed."}
UserNames == ("alice" :> "Alice") @@ ("bob" :> "Bob")

EmptyMap == [k \in {} |-> <<>>]

NoCall == [op |-> "none", type |-> "", message |-> "", subscriber |-> "",
           result |-> ""]

----------------------------------------------------------------------------
(* Subscriber and Notification variants *)

\* User::update
update(name, message) == name \o " received notification: " \o message

send_push_tag(variant, message) ==
    CASE variant = "EmailNotification" -> "Sending Email: " \o message
      [] variant = "SMSNotification" -> "Sending SMS: " \o message
      [] variant = "PushNotification" -> "Sending Push: " \o message

\* EmailNotification::send, SMSNotification::send, PushNotification::send
send(variant, message) ==
    CASE variant = "EmailNotification" -> "Sending Email: " \o message
      [] variant = "SMSNotification" -> "Sending SMS: " \o message
      [] variant = "PushNotification" ->
             "Sending Push Notification: " \o message

createNotification_sms_as_email(type) ==
    IF type = "email" THEN "EmailNotification"
    ELSE IF type = "sms" THEN "EmailNotification"
    ELSE IF type = "push" THEN "PushNotification"
    ELSE "nullptr"

createNotification_default_email(type) ==
    IF type = "sms" THEN "SMSNotification"
    ELSE IF type = "push" THEN "PushNotification"
    ELSE "EmailNotification"

\* NotificationFactory::createNotification
createNotification(type) ==
    IF type = "email" THEN "EmailNotification"
    ELSE IF type = "sms" THEN "SMSNotification"
    ELSE IF type = "push" THEN "PushNotification"
    ELSE "nullptr"

----------------------------------------------------------------------------
(* NotificationManager *)

\* std::map::operator[]: the map after the access (a missing key is
\* inserted with an empty vector); the element is then at(m, k)[k].
at(m, k) == IF k \in DOMAIN m THEN m ELSE m @@ (k :> <<>>)

subscribeMap_push_front(subs, notificationType, subscriber) ==
    [at(subs, notificationType) EXCEPT
        ![notificationType] = <<subscriber>> \o @]

subscribeMap_dedup(subs, notificationType, subscriber) ==
    [at(subs, notificationType) EXCEPT
        ![notificationType] =
            IF \E i \in 1..Len(@) : @[i] = subscriber
            THEN @ ELSE Append(@, subscriber)]

\* the registry after subscribers[notificationType].push_back(subscriber)
subscribeMap(subs, notificationType, subscriber) ==
    [at(subs, notificationType) EXCEPT
        ![notificationType] = Append(@, subscriber)]

notifyMap_no_find(subs, notificationType) == at(subs, notificationType)

\* the registry after notifySubscribers: operator[] is reached only when
\* find succeeded
notifyMap(subs, notificationType) ==
    IF notificationType \in DOMAIN subs
    THEN at(subs, notificationType)
    ELSE subs

RECURSIVE Flatten(_, _)
Flatten(m, keys) ==
    IF keys = {} THEN <<>>
    ELSE LET k == CHOOSE x \in keys : TRUE
         IN m[k] \o Flatten(m, keys \ {k})

notifyTargets_reversed(subs, notificationType) ==
    IF notificationType \in DOMAIN subs
    THEN LET v == subs[notificationType]
         IN [i \in 1..Len(v) |-> v[Len(v) + 1 - i]]
    ELSE <<>>

notifyTargets_all_channels(subs, notificationType) ==
    IF notificationType \in DOMAIN subs
    THEN Flatten(subs, DOMAIN subs)
    ELSE <<>>

notifyTargets_needs_sender(subs, notificationType) ==
    IF notificationType \in DOMAIN subs
       /\ createNotification(notificationType) # "nullptr"
    THEN at(subs, notificationType)[notificationType]
    ELSE <<>>

\* the subscribers the loop of notifySubscribers visits, in visiting order
notifyTargets(subs, notificationType) ==
    IF notificationType \in DOMAIN subs
    THEN at(subs, notificationType)[notificationType]
    ELSE <<>>

\* the update calls of notifySubscribers, each with the argument it passes
updates(subs, notificationType, message) ==
    LET v == notifyTargets(subs, notificationType)
    IN [i \in 1..Len(v) |->
          [method |-> "update", target |-> v[i], message |-> message]]

\* the std::cout line of every invocation of a trace
lines(tr) ==
    [i \in 1..Len(tr) |->
       IF tr[i].method = "update"
       THEN update(users[tr[i].target], tr[i].message)
       ELSE send(tr[i].target, tr[i].message)]

getInstanceCreates_always(inst) == TRUE

\* the test of getInstance: a manager is constructed when none exists
getInstanceCreates(inst) == inst = nullptr

\* the registry reachable through pointer p
registry(h, p) == IF p = nullptr THEN EmptyMap ELSE h[p].subscribers

\* NotificationManager::getInstance, returning into the caller's local
getInstance ==
    /\ IF getInstanceCreates(instance)
       THEN /\ heap' = Append(heap, [subscribers |-> EmptyMap])
            /\ instance' = Len(heap) + 1
       ELSE /\ heap' = heap
            /\ instance' = instance
    /\ manager' = instance'
    /\ call' = [NoCall EXCEPT !.op = "getInstance"]
    /\ pre' = registry(heap, manager)
    /\ trace' = <<>>
    /\ out' = <<>>
    /\ UNCHANGED <<users, stdout, subscribed>>

\* NotificationManager::subscribe on *this
subscribe(this, notificationType, subscriber) ==
    /\ heap' = [heap EXCEPT ![this].subscribers =
                   subscribeMap(@, notificationType, subscriber)]
    /\ call' = [NoCall EXCEPT !.op = "subscribe", !.type = notificationType,
                              !.subscriber = subscriber]
    /\ pre' = registry(heap, this)
    /\ trace' = <<>>
    /\ out' = <<>>
    /\ subscribed' = [subscribed EXCEPT
                         ![<<notificationType, subscriber>>] = @ + 1]
    /\ UNCHANGED <<instance, manager, users, stdout>>

\* NotificationManager::notifySubscribers on *this
notifySubscribers(this, notificationType, message) ==
    LET subs == heap[this].subscribers
        tr == updates(subs, notificationType, message)
    IN /\ heap' = [heap EXCEPT ![this].subscribers =
                      notifyMap(subs, notificationType)]
       /\ call' = [NoCall EXCEPT !.op = "notifySubscribers",
                                 !.type = notificationType,
                                 !.message = message]
       /\ pre' = registry(heap, this)
       /\ trace' = tr
       /\ out' = lines(tr)
       /\ stdout' = stdout \o lines(tr)
       /\ UNCHANGED <<instance, manager, users, subscribed>>

\* NotificationManager::sendNotification on *this
sendNotification(this, notificationType, message) ==
    LET subs == heap[this].subscribers
        notification == createNotification(notificationType)
        tr == <<[method |-> "send", target |-> notification,
                 message |-> message]>>
              \o updates(subs, notificationType, message)
    IN /\ call' = [NoCall EXCEPT !.op = "sendNotification",
                                 !.type = notificationType,
                                 !.message = message,
                                 !.result = notification]
       /\ pre' = registry(heap, this)
       /\ IF notification # "nullptr"
          THEN /\ heap' = [heap EXCEPT ![this].subscribers =
                              notifyMap(subs, notificationType)]
               /\ trace' = tr
               /\ out' = lines(tr)
               /\ stdout' = stdout \o lines(tr)
          ELSE /\ heap' = heap
               /\ trace' = <<>>
               /\ out' = <<"Invalid notification type: "
                            \o notificationType>>
               /\ stdout' = Append(stdout, "Invalid notification type: "
                                           \o notificationType)
       /\ UNCHANGED <<instance, manager, users, subscribed>>

----------------------------------------------------------------------------
(* main() *)

\* the subscribe statements of main, by line
MainSubscribes ==
    [L120 |-> [type |-> "email", subscriber |-> "alice", next |-> "L121"],
     L121 |-> [type |-> "sms", subscriber |-> "bob", next |-> "L122"],
     L122 |-> [type |-> "push", subscriber |-> "alice", next |-> "L123"],
     L123 |-> [type |-> "push", subscriber |-> "bob", next |-> "L126"]]

\* the sendNotification statements of main, by line
MainSends ==
    [L126 |-> [type |-> "email", message |-> "Your order has been placed.",
               next |-> "L127"],
     L127 |-> [type |-> "sms", message |-> "Your order is on the way.",
               next |-> "L128"],
     L128 |-> [type |-> "push",
               message |-> "Your order has been delivered.",
               next |-> "L130"]]

MainGetInstance ==
    /\ pc = "L113"
    /\ getInstance
    /\ pc' = "L116"
    /\ UNCHANGED <<exitCode, nops>>

MainCreateUsers ==
    /\ pc \in {"L116", "L117"}
    /\ users' = IF pc = "L116" THEN users @@ ("alice" :> "Alice")
                ELSE users @@ ("bob" :> "Bob")
    /\ pc' = IF pc = "L116" THEN "L117" ELSE "L120"
    /\ UNCHANGED <<instance, heap, manager, stdout, call, pre, trace, out,
                   exitCode, subscribed, nops>>

MainSubscribe ==
    /\ pc \in DOMAIN MainSubscribes
    /\ subscribe(manager, MainSubscribes[pc].type,
                 MainSubscribes[pc].subscriber)
    /\ pc' = MainSubscribes[pc].next
    /\ UNCHANGED <<exitCode, nops>>

MainSendNotification ==
    /\ pc \in DOMAIN MainSends
    /\ sendNotification(manager, MainSends[pc].type, MainSends[pc].message)
    /\ pc' = MainSends[pc].next
    /\ UNCHANGED <<exitCode, nops>>

MainReturn ==
    /\ pc = "L130"
    /\ exitCode' = 0
    /\ pc' = "done"
    /\ UNCHANGED <<instance, heap, manager, users, stdout, call, pre, trace,
                   out, subscribed, nops>>

----------------------------------------------------------------------------
(* any caller of the public interface *)

CallGetInstance ==
    /\ pc = "free"
    /\ nops < MaxOps
    /\ getInstance
    /\ nops' = nops + 1
    /\ UNCHANGED <<pc, exitCode>>

CallSubscribe ==
    /\ pc = "free"
    /\ nops < MaxOps
    /\ manager # nullptr
    /\ \E t \in Types, s \in DOMAIN users : subscribe(manager, t, s)
    /\ nops' = nops + 1
    /\ UNCHANGED <<pc, exitCode>>

CallNotifySubscribers ==
    /\ pc = "free"
    /\ nops < MaxOps
    /\ manager # nullptr
    /\ \E t \in Types, m \in Messages : notifySubscribers(manager, t, m)
    /\ nops' = nops + 1
    /\ UNCHANGED <<pc, exitCode>>

CallSendNotification ==
    /\ pc = "free"
    /\ nops < MaxOps
    /\ manager # nullptr
    /\ \E t \in Types, m \in Messages : sendNotification(manager, t, m)
    /\ nops' = nops + 1
    /\ UNCHANGED <<pc, exitCode>>

CallCreateNotification ==
    /\ pc = "free"
    /\ nops < MaxOps
    /\ \E t \in FactoryInputs :
          call' = [NoCall EXCEPT !.op = "createNotification", !.type = t,
                                 !.result = createNotification(t)]
    /\ pre' = registry(heap, manager)
    /\ trace' = <<>>
    /\ out' = <<>>
    /\ nops' = nops + 1
    /\ UNCHANGED <<pc, instance, heap, manager, users, stdout, exitCode,
                   subscribed>>

----------------------------------------------------------------------------

Init ==
    /\ pc \in {"L113", "free"}
    /\ instance = nullptr
    /\ heap = <<>>
    /\ manager = nullptr
    /\ users = IF pc = "free" THEN UserNames ELSE EmptyMap
    /\ stdout = <<>>
    /\ call = NoCall
    /\ pre = EmptyMap
    /\ trace = <<>>
    /\ out = <<>>
    /\ exitCode = "none"
    /\ subscribed = [p \in Types \X DOMAIN UserNames |-> 0]
    /\ nops = 0

Next ==
    \/ MainGetInstance
    \/ MainCreateUsers
    \/ MainSubscribe
    \/ MainSendNotification
    \/ MainReturn
    \/ CallGetInstance
    \/ CallSubscribe
    \/ CallNotifySubscribers
    \/ CallSendNotification
    \/ CallCreateNotification

Spec == Init /\ [][Next]_vars

----------------------------------------------------------------------------
(* Properties *)

ValidTypes == {"email", "sms", "push"}

\* the variant the factory is documented to build for a valid type
VariantOf(t) ==
    CASE t = "email" -> "EmailNotification"
      [] t = "sms" -> "SMSNotification"
      [] t = "push" -> "PushNotification"

\* the subscriber sequence of channel t in registry r (empty when absent)
SeqOf(r, t) == IF t \in DOMAIN r THEN r[t] ELSE <<>>

\* number of positions of sequence q satisfying Test
CountIf(q, Test(_)) == Cardinality({i \in 1..Len(q) : Test(q[i])})

RECURSIVE Total(_, _)
\* number of (channel, subscriber) entries of registry r over channels keys
Total(r, keys) ==
    IF keys = {} THEN 0
    ELSE LET k == CHOOSE x \in keys : TRUE
         IN Len(r[k]) + Total(r, keys \ {k})

\* the registry of the singleton
Reg == registry(heap, instance)

\* C1: sendNotification on a valid channel makes exactly one send(msg) on
\* the matching variant, then exactly one update(msg) per entry of the
\* channel's subscriber sequence, in registration order.
C1_SendThenUpdatesInOrder ==
    (call.op = "sendNotification" /\ call.type \in ValidTypes) =>
        LET v == SeqOf(pre, call.type)
        IN /\ Len(trace) = Len(v) + 1
           /\ trace[1] = [method |-> "send", target |-> VariantOf(call.type),
                          message |-> call.message]
           /\ \A i \in 1..Len(v) :
                 trace[i + 1] = [method |-> "update", target |-> v[i],
                                 message |-> call.message]
           /\ Len(out) = Len(trace)

C1_Witness ==
    /\ call.op = "sendNotification"
    /\ call.type \in ValidTypes
    /\ Len(SeqOf(pre, call.type)) >= 2
    /\ pre[call.type][1] # pre[call.type][2]
    /\ Len(trace) = 3

\* C2: sendNotification on a channel name outside email/sms/push writes
\* only the diagnostic line and invokes no send and no update, also when
\* subscribers are registered under that name.
C2_InvalidTypeOnlyDiagnostic ==
    (call.op = "sendNotification" /\ call.type \notin ValidTypes) =>
        /\ out = <<"Invalid notification type: " \o call.type>>
        /\ trace = <<>>

C2_Witness ==
    /\ call.op = "sendNotification"
    /\ call.type = "fax"
    /\ Len(SeqOf(pre, "fax")) >= 1
    /\ out = <<"Invalid notification type: fax">>

\* C3: a subscriber subscribed k times to a valid channel is updated
\* exactly k times by each sendNotification on that channel.
C3_DuplicatesNotifiedEachTime ==
    (call.op = "sendNotification" /\ call.type \in ValidTypes) =>
        \A s \in DOMAIN users :
            CountIf(trace, LAMBDA e : e.method = "update" /\ e.target = s)
                = subscribed[<<call.type, s>>]

C3_Witness ==
    /\ call.op = "sendNotification"
    /\ call.type \in ValidTypes
    /\ \E s \in DOMAIN users :
          /\ subscribed[<<call.type, s>>] = 2
          /\ CountIf(trace, LAMBDA e : e.method = "update" /\ e.target = s)
                = 2

\* C4: createNotification maps email, sms and push to their variants and
\* every other string to null, and a call of it writes nothing and leaves
\* the singleton and its registry as they were.
C4_FactoryMapping ==
    [][call'.op \in {"createNotification", "sendNotification"} =>
          /\ (call'.type = "email" => call'.result = "EmailNotification")
          /\ (call'.type = "sms" => call'.result = "SMSNotification")
          /\ (call'.type = "push" => call'.result = "PushNotification")
          /\ (call'.type \notin ValidTypes => call'.result = "nullptr")
          /\ (call'.op = "createNotification" =>
                 /\ stdout' = stdout
                 /\ heap' = heap
                 /\ instance' = instance)]_vars

C4_Witness ==
    /\ call.op = "createNotification"
    /\ call.type = "fax"
    /\ call.result = "nullptr"
    /\ DOMAIN Reg # {}

\* C5: at most one manager is ever constructed; none exists before the
\* first getInstance call, and every getInstance call returns the one
\* instance with its registry as it was.
C5_SingleInstance ==
    /\ Len(heap) <= 1
    /\ (instance = nullptr) <=> (heap = <<>>)
    /\ manager = nullptr => instance = nullptr
    /\ manager # nullptr => (manager = instance /\ manager = 1)
    /\ call.op = "getInstance" => registry(heap, manager) = pre

C5_Witness ==
    /\ call.op = "getInstance"
    /\ DOMAIN pre # {}
    /\ registry(heap, manager) = pre
    /\ Len(heap) = 1

\* C6: in main, the email send writes the Email line then Alice's line,
\* the sms send the SMS line then Bob's line, the push send the Push line
\* then Alice's then Bob's, and main returns 0.
C6_DriverOutput ==
    /\ pc = "L127" =>
          out = <<"Sending Email: Your order has been placed.",
                  "Alice received notification: Your order has been placed.">>
    /\ pc = "L128" =>
          out = <<"Sending SMS: Your order is on the way.",
                  "Bob received notification: Your order is on the way.">>
    /\ pc = "L130" =>
          out = <<"Sending Push Notification: Your order has been delivered.",
                  "Alice received notification: Your order has been delivered.",
                  "Bob received notification: Your order has been delivered.">>
    /\ pc = "done" =>
          /\ exitCode = 0
          /\ stdout =
               <<"Sending Email: Your order has been placed.",
                 "Alice received notification: Your order has been placed.",
                 "Sending SMS: Your order is on the way.",
                 "Bob received notification: Your order is on the way.",
                 "Sending Push Notification: Your order has been delivered.",
                 "Alice received notification: Your order has been delivered.",
                 "Bob received notification: Your order has been delivered.">>
    /\ pc \in {"L113", "L116", "L117", "L120", "L121", "L122", "L123",
               "L126", "L127", "L128", "L130"} => exitCode = "none"

C6_Witness ==
    /\ pc = "done"
    /\ exitCode = 0
    /\ Len(stdout) = 7

\* C7: notifySubscribers on a channel absent from the registry invokes
\* nothing and writes nothing; on a channel present in the registry,
\* whatever its name, it invokes update(msg) on each registered subscriber
\* in insertion order.
C7_NotifySubscribers ==
    call.op = "notifySubscribers" =>
        IF call.type \notin DOMAIN pre
        THEN trace = <<>> /\ out = <<>>
        ELSE /\ trace = [i \in 1..Len(pre[call.type]) |->
                           [method |-> "update",
                            target |-> pre[call.type][i],
                            message |-> call.message]]
             /\ out = [i \in 1..Len(pre[call.type]) |->
                         users[pre[call.type][i]]
                             \o " received notification: " \o call.message]

C7_Witness ==
    /\ call.op = "notifySubscribers"
    /\ call.type = "fax"
    /\ Len(SeqOf(pre, "fax")) = 2
    /\ pre["fax"][1] # pre["fax"][2]
    /\ Len(trace) = 2

\* C8: only subscribe changes the registry; notifySubscribers and
\* sendNotification leave it as it was, and no key of the registry ever
\* has an empty subscriber sequence.
C8_OnlySubscribeMutates ==
    /\ [][/\ call'.op \in {"notifySubscribers", "sendNotification"} =>
                heap' = heap
          /\ Reg' # Reg => call'.op = "subscribe"]_vars
    /\ [](\A k \in DOMAIN Reg : Len(Reg[k]) >= 1)

C8_Witness ==
    /\ call.op \in {"notifySubscribers", "sendNotification"}
    /\ call.type \notin DOMAIN pre
    /\ call.type \in ValidTypes
    /\ DOMAIN pre # {}
    /\ Reg = pre

\* C9: subscribe(channel, s) appends s at the end of the channel's
\* sequence, creating it if absent, keeps every other channel's sequence,
\* and grows the registry by exactly one entry.
C9_SubscribeAppends ==
    call.op = "subscribe" =>
        LET r == registry(heap, manager)
        IN /\ DOMAIN r = DOMAIN pre \cup {call.type}
           /\ r[call.type] = SeqOf(pre, call.type) \o <<call.subscriber>>
           /\ \A d \in DOMAIN pre \ {call.type} : r[d] = pre[d]
           /\ Total(r, DOMAIN r) = Total(pre, DOMAIN pre) + 1

C9_Witness ==
    /\ call.op = "subscribe"
    /\ Len(SeqOf(pre, call.type)) >= 1
    /\ pre[call.type][1] # call.subscriber
    /\ DOMAIN pre \ {call.type} # {}
    /\ Len(Reg[call.type]) = Len(pre[call.type]) + 1

\* C10: sendNotification and notifySubscribers on channel c update only
\* subscribers registered under c, and each update carries the message
\* passed to the call, unmodified.
C10_ChannelIsolation ==
    call.op \in {"notifySubscribers", "sendNotification"} =>
        \A i \in 1..Len(trace) :
            trace[i].method = "update" =>
                /\ \E j \in 1..Len(SeqOf(pre, call.type)) :
                      pre[call.type][j] = trace[i].target
                /\ trace[i].message = call.message
                /\ out[i] = users[trace[i].target]
                               \o " received notification: " \o call.message

C10_Witness ==
    /\ call.op = "sendNotification"
    /\ Len(trace) = 2
    /\ \E d \in DOMAIN pre \ {call.type} :
          \E j \in 1..Len(pre[d]) :
              /\ pre[d][j] # trace[2].target
              /\ \A i \in 1..Len(pre[call.type]) :
                    pre[call.type][i] # pre[d][j]

====
